---- MODULE Spec2Model ----
(***************************************************************************)
(* Model of streamlit_app.py: one Streamlit script run of main() reads the *)
(* widgets, and when the button, the API key and an upload are all present *)
(* copies the upload to a temp file, loads it, extracts one text per       *)
(* slide, asks Claude for one script per slide, synthesizes one mp3 per    *)
(* script with gTTS, displays the results and unlinks the temp files in a  *)
(* finally block.  Every remote call and every filesystem call is a step   *)
(* whose outcome (success or exception) is chosen by the environment.      *)
(***************************************************************************)
EXTENDS Integers, Sequences, FiniteSets, TLC

\* ---------------------------------------------------------------- bounds
MaxSlides == 2

\* ------------------------------------------------- environment's inputs
\* A shape either exposes a text attribute (possibly empty) or does not.
Shape(has, t) == [hasText |-> has, text |-> t]
Picture == Shape(FALSE, "")
SlideSet ==
    { << >>,
      << Picture >>,
      << Shape(TRUE, "Intro") >>,
      << Shape(TRUE, "Title"), Picture, Shape(TRUE, "") >> }

RECURSIVE SeqsUpTo(_, _)
SeqsUpTo(S, n) ==
    IF n = 0 THEN { << >> }
    ELSE LET shorter == SeqsUpTo(S, n - 1)
         IN  shorter \cup { Append(s, x) : s \in { t \in shorter : Len(t) = n - 1 }, x \in S }

Presentations == SeqsUpTo(SlideSet, MaxSlides)

NoUpload == [isNone |-> TRUE, value |-> << >>]
Upload(p) == [isNone |-> FALSE, value |-> p]
Uploads == { NoUpload } \cup { Upload(p) : p \in Presentations }

ApiKeys == { "", "sk-key" }
LLMResponses == { "Welcome." }
\* Two of the six codes of voice_options.
Voices == { "en", "es" }

\* ------------------------------------------------------ pure functions
RECURSIVE Join(_, _)
Join(sep, strs) ==
    IF Len(strs) = 0 THEN ""
    ELSE IF Len(strs) = 1 THEN strs[1]
    ELSE strs[1] \o sep \o Join(sep, Tail(strs))

ShapeTexts(slide) ==
    LET withText == SelectSeq(slide, LAMBDA shape : shape.hasText)
    IN  [k \in 1..Len(withText) |-> withText[k].text]

\* Variant of extract_slide_text that leaves out the slides without text.
extract_slide_text_nonempty(presentation) ==
    SelectSeq([k \in 1..Len(presentation) |-> Join(" ", ShapeTexts(presentation[k]))],
              LAMBDA t : t # "")

extract_slide_text(presentation) ==
    [k \in 1..Len(presentation) |-> Join(" ", ShapeTexts(presentation[k]))]

Prompt(slide_text) ==
    "Create a professional, engaging presentation script for a slide with the following content:\n\nSlide Content: "
        \o slide_text
        \o "\n\nRequirements:\n- Write in a clear, confident speaking style\n- Provide context and explain key points\n- Use professional language suitable for business or academic presentations\n- Include transitions and highlights\n- Aim for about 2-3 sentences per slide"

Fallback(slide_text) == "Slide content: " \o slide_text


\* Variant of generate_slide_script without the except clause: a failed call
\* reaches the caller.
generate_slide_script_uncaught(slide_text, ok, reply) ==
    [raised |-> ~ok, value |-> reply, notice |-> FALSE]

\* generate_slide_script: one messages.create call; any exception is caught,
\* reported with st.error and replaced by the fallback string.
generate_slide_script(slide_text, ok, reply) ==
    IF ok
    THEN [raised |-> FALSE, value |-> reply, notice |-> FALSE]
    ELSE [raised |-> FALSE, value |-> Fallback(slide_text), notice |-> TRUE]

\* progress_bar.progress((i + 1) / len(slide_texts)), as a fraction; the
\* division raises ZeroDivisionError when the divisor is zero.
Progress(num, den) ==
    [raised |-> (den = 0), value |-> << num, den >>]

\* ------------------------------------------------------------- state
VARIABLES
    pc,               \* position of the script run inside main()
    process_button, api_key, uploaded_file, selected_voice,   \* widget values read by this run
    fs,               \* files present in the temp directory
    nextId,           \* source of fresh names (mkstemp suffix, uuid4)
    locals,           \* names bound in main()'s frame
    tmp_file,         \* the NamedTemporaryFile's name
    tmp_file_path, presentation, slide_texts, scripts, i, progress, audio_files,
    ga_audio_files, temp_audio_path,    \* locals of generate_audio
    k,                \* index of the display loop
    c,                \* index of the unlink loop in the finally block
    exc,              \* exception in flight, "" when none
    requests,         \* remote requests issued by this run, in issue order
    displayed,        \* what st.write / st.audio have shown in this run
    errors,           \* messages surfaced in this run
    created,          \* paths of the temp files this run created
    unlinked,         \* paths this run passed to os.unlink
    cleanupCount,     \* times this run entered the finally block
    visited,          \* orchestrator states this run went through
    started           \* a run has been started on this page

vars == << pc, process_button, api_key, uploaded_file, selected_voice, fs, nextId,
           locals, tmp_file, tmp_file_path, presentation, slide_texts, scripts, i,
           progress, audio_files, ga_audio_files, temp_audio_path, k, c, exc,
           requests, displayed, errors, created, unlinked, cleanupCount, visited,
           started >>

widgets == << process_button, api_key, uploaded_file, selected_voice >>
frame == << locals, tmp_file, tmp_file_path, presentation, slide_texts, scripts, i,
            progress, audio_files, ga_audio_files, temp_audio_path, k, c >>
history == << requests, displayed, errors, created, unlinked, cleanupCount, visited >>

NoPath == [kind |-> "none", idx |-> 0, id |-> 0]
PptxPath(id) == [kind |-> "pptx", idx |-> 0, id |-> id]
\* f"slide_{i}_{uuid.uuid4()}.mp3" in tempfile.gettempdir()
Mp3Path(idx, id) == [kind |-> "mp3", idx |-> idx, id |-> id]

File(path, pres, audio) == [path |-> path, pres |-> pres, audio |-> audio]
Paths(files) == { f.path : f \in files }
Exists(path) == path \in Paths(fs)
Read(path) == CHOOSE f \in fs : f.path = path
Remove(files, path) == { f \in files : f.path # path }

Request(kind, idx, text, lang, path) ==
    [kind |-> kind, idx |-> idx, text |-> text, lang |-> lang, path |-> path,
     state |-> "pending", reply |-> ""]
Outstanding == { j \in 1..Len(requests) : requests[j].state = "pending" }
Answer(j, ok, reply) ==
    [requests EXCEPT ![j].state = IF ok THEN "ok" ELSE "failed", ![j].reply = reply]
LLMRequests == SelectSeq(requests, LAMBDA r : r.kind = "llm")
TTSRequests == SelectSeq(requests, LAMBDA r : r.kind = "tts")

Surfaced(via, msg) == [via |-> via, msg |-> msg]

FreshFrame ==
    /\ locals = {}
    /\ tmp_file = NoPath
    /\ tmp_file_path = NoPath
    /\ presentation = << >>
    /\ slide_texts = << >>
    /\ scripts = << >>
    /\ i = 0
    /\ progress = << 0, 1 >>
    /\ audio_files = << >>
    /\ ga_audio_files = << >>
    /\ temp_audio_path = NoPath
    /\ k = 0
    /\ c = 0

FreshHistory ==
    /\ requests = << >>
    /\ displayed = << >>
    /\ errors = << >>
    /\ created = {}
    /\ unlinked = << >>
    /\ cleanupCount = 0
    /\ visited = {}

Init ==
    /\ pc = "idle"
    /\ process_button = FALSE
    /\ api_key = ""
    /\ uploaded_file = NoUpload
    /\ selected_voice = "en"
    /\ fs = {}
    /\ nextId = 1
    /\ exc = ""
    /\ started = FALSE
    /\ FreshFrame
    /\ FreshHistory


\* ------------------------------------------------------------ actions
\* Variant of the start condition that does not look at the API key.
StartConditionNoKey(button, key, upload) ==
    button /\ ~upload.isNone

\* if process_button and api_key and uploaded_file is not None
StartCondition(button, key, upload) ==
    button /\ key # "" /\ ~upload.isNone

\* One script run begins: the widgets are read; when the condition holds the
\* generator is built and NamedTemporaryFile(delete=False) creates the copy,
\* otherwise main() returns at once.  A behaviour follows the page through
\* its first processing run (any number of runs without one before and after
\* it): a later run gets a fresh frame and fresh file names and shares
\* nothing with an earlier one but the temp directory.
Rerun ==
    /\ pc = "idle"
    /\ \E button \in BOOLEAN, key \in ApiKeys, upload \in Uploads, voice \in Voices :
        /\ process_button' = button
        /\ api_key' = key
        /\ uploaded_file' = upload
        /\ selected_voice' = voice
        /\ IF StartCondition(button, key, upload)
           THEN /\ ~started
                /\ started' = TRUE
                /\ tmp_file' = PptxPath(nextId)
                /\ nextId' = nextId + 1
                /\ fs' = fs \cup { File(PptxPath(nextId), << >>, << >>) }
                /\ created' = { PptxPath(nextId) }
                /\ visited' = { "AwaitingInput" }
                /\ pc' = "saving"
                /\ UNCHANGED << locals, tmp_file_path, presentation, slide_texts, scripts,
                                i, progress, audio_files, ga_audio_files,
                                temp_audio_path, k, c, exc, requests, displayed,
                                errors, unlinked, cleanupCount >>
           ELSE /\ pc' = "done"
                /\ UNCHANGED << fs, nextId, frame, exc, history, started >>

\* tmp_file.write(uploaded_file.getvalue()); tmp_file_path = tmp_file.name.
\* The with block is outside the try: a failing write leaves main() at once.
WriteUpload ==
    /\ pc = "saving"
    /\ \E ok \in BOOLEAN :
        IF ok
        THEN /\ fs' = Remove(fs, tmp_file)
                        \cup { File(tmp_file, << uploaded_file.value >>, << >>) }
             /\ tmp_file_path' = tmp_file
             /\ locals' = locals \cup { "tmp_file_path" }
             /\ pc' = "loading"
             /\ UNCHANGED << errors, visited >>
        ELSE /\ errors' = Append(errors, Surfaced("uncaught", "write"))
             /\ visited' = visited \cup { "Crashed" }
             /\ pc' = "done"
             /\ UNCHANGED << fs, tmp_file_path, locals >>
    /\ UNCHANGED << widgets, nextId, tmp_file, presentation, slide_texts, scripts, i,
                    progress, audio_files, ga_audio_files, temp_audio_path, k, c, exc,
                    requests, displayed, created, unlinked, cleanupCount, started >>

\* presentation = Presentation(tmp_file_path)
LoadPresentation ==
    /\ pc = "loading"
    /\ \E ok \in BOOLEAN :
        IF ok /\ Exists(tmp_file_path) /\ Len(Read(tmp_file_path).pres) = 1
        THEN /\ presentation' = Read(tmp_file_path).pres[1]
             /\ locals' = locals \cup { "presentation" }
             /\ visited' = visited \cup { "Extracting" }
             /\ pc' = "extracting"
             /\ exc' = exc
        ELSE /\ exc' = "load"
             /\ pc' = "aborted"
             /\ UNCHANGED << presentation, locals, visited >>
    /\ UNCHANGED << widgets, fs, nextId, tmp_file, tmp_file_path, slide_texts, scripts,
                    i, progress, audio_files, ga_audio_files, temp_audio_path, k, c,
                    requests, displayed, errors, created, unlinked, cleanupCount, started >>

\* Variant of Extract that sets the bar to 0 / len(slide_texts) before the loop.
ExtractInitialFraction ==
    /\ pc = "extracting"
    /\ slide_texts' = extract_slide_text(presentation)
    /\ scripts' = << >>
    /\ i' = 0
    /\ locals' = locals \cup { "slide_texts", "scripts" }
    /\ visited' = visited \cup { "Scripting" }
    /\ IF Progress(0, Len(slide_texts')).raised
       THEN /\ exc' = "ZeroDivisionError"
            /\ pc' = "aborted"
            /\ UNCHANGED progress
       ELSE /\ progress' = Progress(0, Len(slide_texts')).value
            /\ pc' = "scripting"
            /\ exc' = exc
    /\ UNCHANGED << widgets, fs, nextId, tmp_file, tmp_file_path, presentation,
                    audio_files, ga_audio_files, temp_audio_path, k, c, requests,
                    displayed, errors, created, unlinked, cleanupCount, started >>

\* slide_texts = extract_slide_text(presentation); scripts = [];
\* progress_bar = st.progress(0)
Extract ==
    /\ pc = "extracting"
    /\ slide_texts' = extract_slide_text(presentation)
    /\ scripts' = << >>
    /\ progress' = << 0, 1 >>
    /\ i' = 0
    /\ locals' = locals \cup { "slide_texts", "scripts" }
    /\ visited' = visited \cup { "Scripting" }
    /\ pc' = "scripting"
    /\ UNCHANGED << widgets, fs, nextId, tmp_file, tmp_file_path, presentation,
                    audio_files, ga_audio_files, temp_audio_path, k, c, exc, requests,
                    displayed, errors, created, unlinked, cleanupCount, started >>

\* for i, text in enumerate(slide_texts): the next iteration sends the slide's
\* prompt; after the last one generate_audio(scripts, voice) is entered.
ScriptNext ==
    /\ pc = "scripting"
    /\ IF i < Len(slide_texts)
       THEN /\ requests' = Append(requests,
                    Request("llm", i + 1, Prompt(slide_texts[i + 1]), "", NoPath))
            /\ pc' = "llm_wait"
            /\ UNCHANGED << ga_audio_files, visited >>
       ELSE /\ ga_audio_files' = << >>
            /\ visited' = visited \cup { "Synthesizing" }
            /\ pc' = "synth"
            /\ UNCHANGED requests
    /\ UNCHANGED << widgets, fs, nextId, locals, tmp_file, tmp_file_path, presentation,
                    slide_texts, scripts, i, progress, audio_files, temp_audio_path, k,
                    c, exc, displayed, errors, created, unlinked, cleanupCount, started >>

\* The messages.create call returns or raises; generate_slide_script returns;
\* scripts.append(script); progress_bar.progress((i + 1) / len(slide_texts)).
LLMAnswered(ok, reply) ==
    LET res == generate_slide_script(slide_texts[i + 1], ok, reply)
        frac == Progress(i + 1, Len(slide_texts))
    IN  /\ requests' = Answer(Len(requests), ok, IF ok THEN reply ELSE "")
        /\ errors' = IF res.notice
                     THEN Append(errors, Surfaced("st.error", "llm"))
                     ELSE errors
        /\ IF res.raised
           THEN /\ exc' = "llm"
                /\ pc' = "aborted"
                /\ UNCHANGED << scripts, progress, i >>
           ELSE IF frac.raised
           THEN /\ scripts' = Append(scripts, res.value)
                /\ exc' = "ZeroDivisionError"
                /\ pc' = "aborted"
                /\ UNCHANGED << progress, i >>
           ELSE /\ scripts' = Append(scripts, res.value)
                /\ progress' = frac.value
                /\ i' = i + 1
                /\ pc' = "scripting"
                /\ exc' = exc
        /\ UNCHANGED << widgets, fs, nextId, locals, tmp_file, tmp_file_path,
                        presentation, slide_texts, audio_files, ga_audio_files,
                        temp_audio_path, k, c, displayed, created, unlinked,
                        cleanupCount, visited, started >>

\* Variant of LLMReturn that sends the slide's request again after a failure.
LLMReturnRetry ==
    /\ pc = "llm_wait"
    /\ \/ \E reply \in LLMResponses : LLMAnswered(TRUE, reply)
       \/ /\ requests' = Answer(Len(requests), FALSE, "")
          /\ pc' = "scripting"
          /\ UNCHANGED << widgets, fs, nextId, frame, exc, displayed, errors, created,
                          unlinked, cleanupCount, visited, started >>

LLMReturn ==
    /\ pc = "llm_wait"
    /\ \/ \E reply \in LLMResponses : LLMAnswered(TRUE, reply)
       \/ LLMAnswered(FALSE, "")

\* Variant of the TTS call that swallows a failure and goes on.
SaveResultSwallowed(ok, left) ==
    [raised |-> FALSE, written |-> ok, leftover |-> (~ok /\ left)]

\* tts = gTTS(text=script, lang=voice); tts.save(temp_audio_path): the call
\* either writes the whole file or raises.  gTTS.save opens the file for
\* writing before it fetches the audio, so a save that raises may leave an
\* empty file at temp_audio_path; a gTTS() that raises leaves none.
SaveResult(ok, left) ==
    [raised |-> ~ok, written |-> ok, leftover |-> (~ok /\ left)]

\* for i, script in enumerate(scripts, 1): a fresh file name is built and the
\* TTS call is made; after the last script the list is returned and bound to
\* audio_files in main().
SynthNext ==
    /\ pc = "synth"
    /\ IF Len(ga_audio_files) < Len(scripts)
       THEN LET idx == Len(ga_audio_files) + 1
                path == Mp3Path(idx, nextId)
            IN  /\ temp_audio_path' = path
                /\ nextId' = nextId + 1
                /\ requests' = Append(requests,
                        Request("tts", idx, scripts[idx], selected_voice, path))
                /\ pc' = "tts_wait"
                /\ UNCHANGED << audio_files, locals, visited, k >>
       ELSE /\ audio_files' = ga_audio_files
            /\ locals' = locals \cup { "audio_files" }
            /\ visited' = visited \cup { "Rendering" }
            /\ k' = 0
            /\ pc' = "rendering"
            /\ UNCHANGED << temp_audio_path, nextId, requests >>
    /\ UNCHANGED << widgets, fs, tmp_file, tmp_file_path, presentation, slide_texts,
                    scripts, i, progress, ga_audio_files, c, exc, displayed, errors,
                    created, unlinked, cleanupCount, started >>

TTSReturn ==
    /\ pc = "tts_wait"
    /\ \E ok \in BOOLEAN, left \in BOOLEAN :
        LET res == SaveResult(ok, left)
            req == requests[Len(requests)]
        IN  /\ (ok => left)
            /\ requests' = Answer(Len(requests), ok, "")
            /\ IF res.written
               THEN /\ fs' = fs \cup { File(temp_audio_path, << >>, << req.text, req.lang >>) }
                    /\ created' = created \cup { temp_audio_path }
               ELSE IF res.leftover
               THEN /\ fs' = fs \cup { File(temp_audio_path, << >>, << >>) }
                    /\ created' = created \cup { temp_audio_path }
               ELSE UNCHANGED << fs, created >>
            /\ IF res.raised
               THEN /\ exc' = "tts"
                    /\ pc' = "aborted"
                    /\ UNCHANGED ga_audio_files
               ELSE /\ ga_audio_files' = Append(ga_audio_files, temp_audio_path)
                    /\ pc' = "synth"
                    /\ exc' = exc
    /\ UNCHANGED << widgets, nextId, locals, tmp_file, tmp_file_path, presentation,
                    slide_texts, scripts, i, progress, audio_files, temp_audio_path, k,
                    c, displayed, errors, unlinked, cleanupCount, visited, started >>

Shown(slide, script, audio) == [slide |-> slide, script |-> script, audio |-> audio]

\* for i, script in enumerate(scripts, 1): st.subheader, st.write(script),
\* st.audio(audio_files[i-1]); st.audio reads the file and may raise.  After
\* the last slide the try block ends and the finally block is entered.
RenderNext ==
    /\ pc = "rendering"
    /\ IF k < Len(scripts)
       THEN \E ok \in BOOLEAN :
              IF ok /\ k < Len(audio_files) /\ Exists(audio_files[k + 1])
              THEN /\ displayed' = Append(displayed,
                                     Shown(k + 1, scripts[k + 1], audio_files[k + 1]))
                   /\ k' = k + 1
                   /\ pc' = pc
                   /\ exc' = exc
              ELSE /\ displayed' = Append(displayed, Shown(k + 1, scripts[k + 1], NoPath))
                   /\ exc' = "render"
                   /\ pc' = "aborted"
                   /\ k' = k
       ELSE /\ pc' = "cleanup"
            /\ UNCHANGED << displayed, k, exc >>
    /\ UNCHANGED << widgets, fs, nextId, locals, tmp_file, tmp_file_path, presentation,
                    slide_texts, scripts, i, progress, audio_files, ga_audio_files,
                    temp_audio_path, c, requests, errors, created, unlinked,
                    cleanupCount, visited, started >>

\* except Exception as e: st.error(f"An error occurred: {e}")
Except ==
    /\ pc = "aborted"
    /\ errors' = Append(errors, Surfaced("st.error", exc))
    /\ visited' = visited \cup { "Aborted" }
    /\ exc' = ""
    /\ pc' = "cleanup"
    /\ UNCHANGED << widgets, fs, nextId, frame, requests, displayed, created, unlinked,
                    cleanupCount, started >>

\* The audio files the finally block unlinks:
\* if 'audio_files' in locals(): for audio_file in audio_files
CleanupAudioTargets ==
    IF "audio_files" \in locals THEN audio_files ELSE << >>

\* finally: if 'tmp_file_path' in locals(): os.unlink(tmp_file_path).
\* os.unlink raises when the file is missing or cannot be removed; nothing
\* catches it, so the rest of the block is skipped.
FinallyTmp ==
    /\ pc = "cleanup"
    /\ cleanupCount' = cleanupCount + 1
    /\ c' = 0
    /\ IF "tmp_file_path" \in locals
       THEN \E ok \in BOOLEAN :
              /\ unlinked' = Append(unlinked, tmp_file_path)
              /\ IF ok /\ Exists(tmp_file_path)
                 THEN /\ fs' = Remove(fs, tmp_file_path)
                      /\ visited' = visited \cup { "Cleanup" }
                      /\ pc' = "cleanup_audio"
                      /\ UNCHANGED errors
                 ELSE /\ errors' = Append(errors, Surfaced("uncaught", "unlink"))
                      /\ visited' = visited \cup { "Cleanup", "Crashed" }
                      /\ pc' = "done"
                      /\ UNCHANGED fs
       ELSE /\ visited' = visited \cup { "Cleanup" }
            /\ pc' = "cleanup_audio"
            /\ UNCHANGED << fs, unlinked, errors >>
    /\ UNCHANGED << widgets, nextId, locals, tmp_file, tmp_file_path, presentation,
                    slide_texts, scripts, i, progress, audio_files, ga_audio_files,
                    temp_audio_path, k, exc, requests, displayed, created, started >>

\* for audio_file in audio_files: os.unlink(audio_file); then main() returns.
FinallyAudio ==
    /\ pc = "cleanup_audio"
    /\ IF c < Len(CleanupAudioTargets)
       THEN \E ok \in BOOLEAN :
              LET path == CleanupAudioTargets[c + 1]
              IN  /\ unlinked' = Append(unlinked, path)
                  /\ IF ok /\ Exists(path)
                     THEN /\ fs' = Remove(fs, path)
                          /\ c' = c + 1
                          /\ pc' = pc
                          /\ UNCHANGED << errors, visited >>
                     ELSE /\ errors' = Append(errors, Surfaced("uncaught", "unlink"))
                          /\ visited' = visited \cup { "Crashed" }
                          /\ pc' = "done"
                          /\ UNCHANGED << fs, c >>
       ELSE /\ visited' = visited \cup { "CleanupDone" }
            /\ pc' = "done"
            /\ UNCHANGED << fs, c, unlinked, errors >>
    /\ UNCHANGED << widgets, nextId, locals, tmp_file, tmp_file_path, presentation,
                    slide_texts, scripts, i, progress, audio_files, ga_audio_files,
                    temp_audio_path, k, exc, requests, displayed, created,
                    cleanupCount, started >>

\* main() has returned (or an exception left it): the frame is gone and the
\* page waits for the next interaction.
Return ==
    /\ pc = "done"
    /\ pc' = "idle"
    /\ exc' = ""
    /\ locals' = {}
    /\ tmp_file' = NoPath
    /\ tmp_file_path' = NoPath
    /\ presentation' = << >>
    /\ slide_texts' = << >>
    /\ scripts' = << >>
    /\ i' = 0
    /\ progress' = << 0, 1 >>
    /\ audio_files' = << >>
    /\ ga_audio_files' = << >>
    /\ temp_audio_path' = NoPath
    /\ k' = 0
    /\ c' = 0
    /\ requests' = << >>
    /\ displayed' = << >>
    /\ errors' = << >>
    /\ created' = {}
    /\ unlinked' = << >>
    /\ cleanupCount' = 0
    /\ visited' = {}
    /\ process_button' = FALSE
    /\ api_key' = ""
    /\ uploaded_file' = NoUpload
    /\ selected_voice' = "en"
    /\ UNCHANGED << fs, nextId, started >>

Next ==
    \/ Rerun
    \/ WriteUpload
    \/ LoadPresentation
    \/ Extract
    \/ ScriptNext
    \/ LLMReturn
    \/ SynthNext
    \/ TTSReturn
    \/ RenderNext
    \/ Except
    \/ FinallyTmp
    \/ FinallyAudio
    \/ Return

Spec == Init /\ [][Next]_vars


\* ------------------------------------------------------------- claims
Range(seq) == { seq[j] : j \in 1..Len(seq) }
Failed(reqs) == { j \in 1..Len(reqs) : reqs[j].state = "failed" }
UnlinkFailed == Surfaced("uncaught", "unlink") \in Range(errors)
AfterTry == pc \in { "cleanup", "cleanup_audio", "done" }
Remaining == created \cap Paths(fs)
RemainingAudio == { p \in Remaining : p.kind = "mp3" }
\* The input copy and the audio files whose save completed.
Written == { f.path : f \in { g \in fs : g.path \in created
                                          /\ (g.path.kind = "pptx" \/ g.audio # << >>) } }
N == Len(uploaded_file.value)

\* C1: once the finally block has run to its end, no temp file written by
\* the run (the input copy or an audio file generate_audio saved, also one
\* saved before a later slide failed) is left in the temp directory.
C1_CleanupTotality ==
    (pc = "done" /\ "CleanupDone" \in visited) => Written = {}

\* C2: generate_slide_script never raises; Script[i] is the reply when the
\* call for slide i succeeded and "Slide content: " + SlideText[i] when it
\* failed; a run that got to scripting ends before Rendering only when a TTS
\* call failed, and Rendering is entered with N scripts.
C2_DegradeNotFail ==
    /\ exc # "llm"
    /\ Len(scripts) <= Len(LLMRequests)
    /\ \A j \in 1..Len(scripts) :
          scripts[j] = IF LLMRequests[j].state = "ok"
                       THEN LLMRequests[j].reply
                       ELSE "Slide content: " \o slide_texts[j]
    /\ ("Scripting" \in visited /\ "Rendering" \notin visited
            /\ pc \in { "aborted", "cleanup", "cleanup_audio", "done" })
          => Failed(TTSRequests) # {}
    /\ "Rendering" \in visited => Len(scripts) = N

C2_Witness ==
    /\ pc = "rendering"
    /\ N = 2
    /\ Failed(LLMRequests) = { 1, 2 }
    /\ scripts = << "Slide content: Intro", "Slide content: Title " >>

\* C3: when every TTS call of a run over at least one slide fails, the run is
\* aborted and no audio file of the run is left after Cleanup.
C3_FatalLaw ==
    (/\ pc = "done"
     /\ "CleanupDone" \in visited
     /\ Len(TTSRequests) >= 1
     /\ Failed(TTSRequests) = 1..Len(TTSRequests))
        => ("Aborted" \in visited /\ RemainingAudio = {})

\* C4: a script run whose button, key or upload is missing starts nothing:
\* it issues no request, creates no temp file and leaves the temp directory
\* as it was.
C4_InertIdle ==
    /\ [](~(process_button /\ api_key # "" /\ ~uploaded_file.isNone) =>
            /\ pc \in { "idle", "done" }
            /\ requests = << >>
            /\ created = {}
            /\ visited = {})
    /\ [][(pc = "idle"
            /\ ~(process_button' /\ api_key' # "" /\ ~uploaded_file'.isNone))
          => (fs' = fs /\ pc' = "done")]_vars

C4_Witness ==
    /\ pc = "done"
    /\ process_button
    /\ api_key = ""
    /\ ~uploaded_file.isNone
    /\ fs = {}

\* C5: when Rendering is entered the texts, scripts and audio paths all have
\* one entry per slide of the upload; text i is the space-joined text of
\* slide i (empty when the slide has none), script i answers the request
\* made for text i, and audio path i holds the audio of script i.
C5_Alignment ==
    pc = "rendering" =>
        /\ Len(slide_texts) = N
        /\ Len(scripts) = N
        /\ Len(audio_files) = N
        /\ Len(LLMRequests) = N
        /\ Len(TTSRequests) = N
        /\ \A j \in 1..N :
            /\ slide_texts[j] = Join(" ", ShapeTexts(uploaded_file.value[j]))
            /\ LLMRequests[j].idx = j
            /\ LLMRequests[j].text = Prompt(slide_texts[j])
            /\ scripts[j] = IF LLMRequests[j].state = "ok"
                            THEN LLMRequests[j].reply
                            ELSE Fallback(slide_texts[j])
            /\ TTSRequests[j].idx = j
            /\ TTSRequests[j].text = scripts[j]
            /\ TTSRequests[j].path = audio_files[j]
            /\ audio_files[j].idx = j
            /\ File(audio_files[j], << >>, << scripts[j], selected_voice >>) \in fs
        /\ \A m \in 1..Len(displayed) :
            displayed[m] \in { Shown(m, scripts[m], audio_files[m]),
                               Shown(m, scripts[m], NoPath) }

C5_Witness ==
    /\ pc = "rendering"
    /\ slide_texts = << "", "Title " >>
    /\ Len(displayed) = 2
    /\ Failed(LLMRequests) = { 1 }

\* C6: every run that created its input copy enters the finally block
\* exactly once, wherever an error came from.
C6_CleanupOnce ==
    (pc = "done" /\ created # {}) => cleanupCount = 1

\* C7: a failed TTS call aborts the run: the exception reaches main()'s
\* handler, which surfaces it; nothing is displayed, Rendering is not entered
\* and the finally block runs.
C7_TTSFatal ==
    Failed(TTSRequests) # {} =>
        /\ pc \in { "aborted", "cleanup", "cleanup_audio", "done" }
        /\ pc = "aborted" => exc = "tts"
        /\ pc # "aborted" =>
              /\ "Aborted" \in visited
              /\ Surfaced("st.error", "tts") \in Range(errors)
        /\ "Rendering" \notin visited
        /\ displayed = << >>
        /\ pc = "done" => (cleanupCount = 1 /\ "Cleanup" \in visited)

C7_Witness ==
    /\ pc = "done"
    /\ Failed(TTSRequests) = { 2 }
    /\ "CleanupDone" \in visited

\* C8: requests are issued one at a time: the LLM requests are for slides
\* 1, 2, ... in order, one per slide, all of them before the first TTS
\* request; the TTS requests are for scripts 1, 2, ... in order; at most one
\* request is pending.
C8_Sequential ==
    /\ Cardinality(Outstanding) <= 1
    /\ \A j \in 1..Len(LLMRequests) : LLMRequests[j].idx = j
    /\ \A j \in 1..Len(TTSRequests) : TTSRequests[j].idx = j
    /\ Len(LLMRequests) <= Len(slide_texts)
    /\ Len(TTSRequests) <= Len(scripts)
    /\ \A a \in 1..Len(requests) : \A b \in a..Len(requests) :
          requests[a].kind = "tts" => requests[b].kind = "tts"
    /\ \A j \in 1..Len(requests) : j < Len(requests) => requests[j].state # "pending"
    /\ "Synthesizing" \in visited => Len(LLMRequests) = Len(slide_texts)
    /\ "Rendering" \in visited => Len(TTSRequests) = Len(scripts)

C8_Witness ==
    /\ pc = "tts_wait"
    /\ Len(LLMRequests) = 2
    /\ Failed(LLMRequests) = { 1 }
    /\ Len(TTSRequests) = 2

\* C9: when an unlink fails in the finally block of a run that was rendered
\* without error, every other temp file of the run that still exists has
\* been passed to os.unlink.
C9_BestEffortCleanup ==
    (pc = "done" /\ "audio_files" \in locals /\ "Aborted" \notin visited /\ UnlinkFailed)
        => Remaining \subseteq Range(unlinked)

\* C10: an upload without slides issues no request, leaves scripts and audio
\* empty, raises nothing inside the try block (the progress fraction is never
\* computed), enters Rendering and then the finally block.
C10_EmptyPresentation ==
    ("Scripting" \in visited /\ N = 0) =>
        /\ requests = << >>
        /\ scripts = << >>
        /\ audio_files = << >>
        /\ displayed = << >>
        /\ progress = << 0, 1 >>
        /\ exc = ""
        /\ pc # "aborted"
        /\ "Aborted" \notin visited
        /\ \A e \in Range(errors) : e.via # "st.error"
        /\ AfterTry => "Rendering" \in visited
        /\ pc = "done" => cleanupCount = 1

C10_Witness ==
    /\ pc = "done"
    /\ N = 0
    /\ "Rendering" \in visited
    /\ "CleanupDone" \in visited
    /\ cleanupCount = 1

====
